---------------------------- MODULE Spec2Model ----------------------------
(***************************************************************************)
(* A model of the raven-teleprompter AppComponent                           *)
(* (src/src/app/app.component.ts): the speech-driven cursor of the          *)
(* prompter, its transcript aggregation, word normalisation, lookahead      *)
(* matching, recent-match cache with timed expiry, and the start / pause /  *)
(* restart / stop life cycle around the webkitSpeechRecognition engine.     *)
(*                                                                          *)
(* A JavaScript string is modelled as a sequence of one-character strings,  *)
(* an array as a sequence.  Operators that model a JavaScript built-in keep *)
(* its 0-based indices and its conventions (-1 for "not found").            *)
(***************************************************************************)
EXTENDS Integers, Sequences, FiniteSets, TLC

(***************************************************************************)
(* Characters                                                               *)
(***************************************************************************)
LowerLetters ==
    <<"a","b","c","d","e","f","g","h","i","j","k","l","m",
      "n","o","p","q","r","s","t","u","v","w","x","y","z">>

UpperLetters ==
    <<"A","B","C","D","E","F","G","H","I","J","K","L","M",
      "N","O","P","Q","R","S","T","U","V","W","X","Y","Z">>

LowerSet == {LowerLetters[i] : i \in 1..26}

\* The characters the regular-expression class \s matches (those used here).
Whitespace == {" ", "\t", "\n"}

\* String.prototype.toLowerCase on one character.
ToLowerChar(c) ==
    IF \E i \in 1..26 : UpperLetters[i] = c
    THEN LowerLetters[CHOOSE i \in 1..26 : UpperLetters[i] = c]
    ELSE c

(***************************************************************************)
(* JavaScript string and array built-ins used by the component             *)
(***************************************************************************)
Min(a, b) == IF a < b THEN a ELSE b
Max(a, b) == IF a > b THEN a ELSE b

\* String.prototype.toLowerCase
ToLowerCase(s) == [i \in 1..Len(s) |-> ToLowerChar(s[i])]

\* String.prototype.trim: leading and trailing whitespace removed.
RECURSIVE TrimStart(_)
TrimStart(s) ==
    IF s # <<>> /\ Head(s) \in Whitespace THEN TrimStart(Tail(s)) ELSE s

RECURSIVE TrimEnd(_)
TrimEnd(s) ==
    IF s # <<>> /\ s[Len(s)] \in Whitespace
    THEN TrimEnd(SubSeq(s, 1, Len(s) - 1))
    ELSE s

Trim(s) == TrimEnd(TrimStart(s))

\* String.prototype.substr(start) with one argument: a negative start counts
\* from the end of the string, a start past the end gives the empty string.
Substr(s, start) ==
    LET from == IF start < 0 THEN Max(Len(s) + start, 0) ELSE Min(start, Len(s))
    IN  SubSeq(s, from + 1, Len(s))

\* String.prototype.indexOf(c): 0-based index of the first c, or -1.
IndexOf(s, c) ==
    IF \E i \in 1..Len(s) : s[i] = c
    THEN (CHOOSE i \in 1..Len(s) : s[i] = c /\ \A j \in 1..(i - 1) : s[j] # c) - 1
    ELSE -1

\* String.prototype.slice(0, n) and Array.prototype.slice(0, n)
SliceTo(s, n) == SubSeq(s, 1, Min(n, Len(s)))

\* Array.prototype.slice(-n): the last n elements.
SliceLast(a, n) == SubSeq(a, Max(Len(a) - n, 0) + 1, Len(a))

\* Array.prototype.slice(from, to), 0 <= from <= to.
Slice(a, from, to) == SubSeq(a, Min(from, Len(a)) + 1, Min(to, Len(a)))

\* String.prototype.split(' '): the pieces between single spaces; two
\* adjacent spaces give an empty piece, the empty string gives one empty piece.
RECURSIVE Split(_)
Split(s) ==
    LET i == IndexOf(s, " ")
    IN  IF i = -1
        THEN <<s>>
        ELSE <<SubSeq(s, 1, i)>> \o Split(SubSeq(s, i + 2, Len(s)))

\* Array.prototype.includes
Includes(a, x) == \E i \in 1..Len(a) : a[i] = x

\* Array.prototype.findIndex(y => y === x): 0-based index of the first x, or -1.
FindIndex(a, x) ==
    IF \E i \in 1..Len(a) : a[i] = x
    THEN (CHOOSE i \in 1..Len(a) : a[i] = x /\ \A j \in 1..(i - 1) : a[j] # x) - 1
    ELSE -1

\* String.prototype.replace(/\s/g, ' ')
ReplaceWhitespace(s) ==
    [i \in 1..Len(s) |-> IF s[i] \in Whitespace THEN " " ELSE s[i]]

(***************************************************************************)
(* Word normalisation                                                       *)
(***************************************************************************)
\* The characters the class [^a-z|\s] does NOT match, and so the ones
\* replace(/[^a-z|\s]/g, '') keeps: inside a character class '|' is a literal.
KeptByFilter(c) == c \in LowerSet \/ c = "|" \/ c \in Whitespace

\* replace without the g flag: only the first character matched is removed.
RECURSIVE StripFirstNonAlpha(_)
StripFirstNonAlpha(s) ==
    IF s = <<>> THEN <<>>
    ELSE IF KeptByFilter(Head(s))
         THEN <<Head(s)>> \o StripFirstNonAlpha(Tail(s))
         ELSE Tail(s)

\* String.prototype.replace(/[^a-z|\s]/g, '')
RECURSIVE StripNonAlpha(_)
StripNonAlpha(s) ==
    IF s = <<>> THEN <<>>
    ELSE IF KeptByFilter(Head(s))
         THEN <<Head(s)>> \o StripNonAlpha(Tail(s))
         ELSE StripNonAlpha(Tail(s))

\* The length a normalised word is cut to.
PrefixLength == 5

\* x => x.toLowerCase().replace(/[^a-z|\s]/g, '').slice(0, 5), the map applied
\* to the script window.
NormalizeWord(x) == SliceTo(StripNonAlpha(ToLowerCase(x)), PrefixLength)


(***************************************************************************)
(* Transcript aggregation (handleSpeechResult, first half)                  *)
(*                                                                          *)
(* A recognition event is the sequence e.results; each element is the top   *)
(* alternative e.results[i][0], a record [confidence, transcript].  A       *)
(* confidence is held in hundredths (0.85 is 85).                           *)
(***************************************************************************)
MaxTranscriptLength == 50

ConfidenceThreshold == 85

\* The part one result contributes: its trimmed text cut to the last 25
\* characters, minus the leading partial word when exactly 25 are left.
TranscriptPart(text) ==
    LET part == Substr(Trim(text), -(MaxTranscriptLength \div 2))
    IN  IF Len(part) = MaxTranscriptLength \div 2
        THEN Substr(part, IndexOf(part, " ") + 1)
        ELSE part

\* Concatenate with continue in the place of break: a result below the
\* threshold is left out and the loop goes on.
RECURSIVE ConcatenateSkipping(_, _, _)
ConcatenateSkipping(results, i, transcript) ==
    IF i > Len(results) THEN transcript
    ELSE IF results[i].confidence < ConfidenceThreshold
         THEN ConcatenateSkipping(results, i + 1, transcript)
    ELSE ConcatenateSkipping(results, i + 1,
                             transcript \o <<" ">> \o TranscriptPart(results[i].transcript))

\* The for loop over e.results from index i (1-based here): it breaks at the
\* first result whose confidence is below the threshold.
RECURSIVE Concatenate(_, _, _)
Concatenate(results, i, transcript) ==
    IF i > Len(results) THEN transcript
    ELSE IF results[i].confidence < ConfidenceThreshold THEN transcript
    ELSE Concatenate(results, i + 1,
                     transcript \o <<" ">> \o TranscriptPart(results[i].transcript))

\* The cut applied to a transcript longer than maxTranscriptLength:
\* substr(maxTranscriptLength), then the text after the first space.
CutTranscript(transcript) ==
    IF Len(transcript) > MaxTranscriptLength
    THEN LET rest == Substr(transcript, MaxTranscriptLength)
         IN  Substr(rest, IndexOf(rest, " ") + 1)
    ELSE transcript

\* The value of the local 'transcript' when it is compared with the cache.
Aggregate(results) == Trim(CutTranscript(Concatenate(results, 1, <<>>)))

(***************************************************************************)
(* The spoken words (handleSpeechResult, second half)                       *)
(***************************************************************************)
LookAheadWordCount == 5

\* transcript.toLowerCase().replace(...).split(' ').slice(-5).map(x => x.slice(0, 5))
SpokenWords(transcript) ==
    LET tokens == SliceLast(Split(StripNonAlpha(ToLowerCase(transcript))),
                            LookAheadWordCount)
    IN  [i \in 1..Len(tokens) |-> SliceTo(tokens[i], PrefixLength)]

(***************************************************************************)
(* Script                                                                   *)
(***************************************************************************)
\* 'Enter text for prompter.'
DefaultText ==
    <<"E","n","t","e","r"," ","t","e","x","t"," ","f","o","r"," ",
      "p","r","o","m","p","t","e","r",".">>

\* assignWords: the form's text (or the default when it is empty), every
\* whitespace character made a space, split at the spaces.
AssignWords(text) ==
    Split(ReplaceWhitespace(IF text = <<>> THEN DefaultText ELSE text))

(***************************************************************************)
(* Inputs                                                                   *)
(***************************************************************************)
TheQuickBrownFoxJumps ==
    <<"t","h","e"," ","q","u","i","c","k"," ","b","r","o","w","n"," ",
      "f","o","x"," ","j","u","m","p","s">>

TheFoxTheDog ==
    <<"T","h","e"," ","f","o","x",","," ","t","h","e"," ","d","o","g",".">>

\* Texts typed into the form: the script of the specification's scenarios,
\* and one with capitals, punctuation and a repeated word.
ScriptTexts == {TheQuickBrownFoxJumps, TheFoxTheDog}

Result(confidence, text) == [confidence |-> confidence, transcript |-> text]

TheQuickBrown ==
    <<"t","h","e"," ","q","u","i","c","k"," ","b","r","o","w","n">>

TheQuick == <<"t","h","e"," ","q","u","i","c","k">>

Brown == <<"b","r","o","w","n">>

Fox == <<"f","o","x">>

FoxJumps == <<"f","o","x"," ","j","u","m","p","s">>

FoxJumpsJumps ==
    <<"f","o","x"," ","j","u","m","p","s"," ","j","u","m","p","s">>

QuickBrown == <<"q","u","i","c","k"," ","b","r","o","w","n">>

TheQuickBrownFoxJumpsOverTheLazyDog ==
    <<"t","h","e"," ","q","u","i","c","k"," ","b","r","o","w","n"," ",
      "f","o","x"," ","j","u","m","p","s"," ","o","v","e","r"," ",
      "t","h","e"," ","l","a","z","y"," ","d","o","g">>

\* The event of the specification's aggregation scenario: a result below the
\* threshold between two above it.
LowConfidenceInside ==
    <<Result(90, TheQuick), Result(80, Brown), Result(99, FoxJumps)>>

\* Recognition events (e.results) the engine delivers.
Events ==
    { <<Result(90, TheQuickBrown)>>,
      LowConfidenceInside,
      <<Result(95, TheQuick), Result(85, Brown)>>,
      <<Result(90, FoxJumpsJumps)>>,
      <<Result(80, Fox)>>,
      <<Result(90, QuickBrown)>>,
      <<Result(90, Fox), Result(90, TheQuick)>> }

\* Pending expiry callbacks, and pending delayed starts, the model follows.
MaxExpiryTimers == 2

MaxRestartTimers == 1

\* Events of up to MaxSegments results, each one of SegmentChoices: the three
\* results of LowConfidenceInside and a long text above the threshold.
MaxSegments == 5

SegmentChoices ==
    { Result(90, TheQuick),
      Result(80, Brown),
      Result(99, FoxJumps),
      Result(90, TheQuickBrownFoxJumpsOverTheLazyDog) }

SegmentEvents == UNION {[1..k -> SegmentChoices] : k \in 1..MaxSegments}

\* Single words of up to MaxWordLength characters: a lowercase letter, a
\* capital, the bar, and a digit.
MaxWordLength == 6

WordAlphabet == {"a", "B", "|", "7"}

SingleWords == UNION {[1..k -> WordAlphabet] : k \in 0..MaxWordLength}

(***************************************************************************)
(* The pure parts of handleSpeechResult evaluated once for the events of    *)
(* Events and the words of ScriptTexts; any other argument is evaluated     *)
(* when it is met.                                                          *)
(***************************************************************************)
AggregateMemo == [results \in Events |-> Aggregate(results)]

AggregateOf(results) ==
    IF results \in Events THEN AggregateMemo[results] ELSE Aggregate(results)

MemoTranscripts == {AggregateMemo[results] : results \in Events}

SpokenWordsMemo == [transcript \in MemoTranscripts |-> SpokenWords(transcript)]

SpokenWordsOf(transcript) ==
    IF transcript \in MemoTranscripts
    THEN SpokenWordsMemo[transcript]
    ELSE SpokenWords(transcript)

MemoWords ==
    UNION {{AssignWords(text)[i] : i \in 1..Len(AssignWords(text))} :
           text \in ScriptTexts}

NormalizeWordMemo == [x \in MemoWords |-> NormalizeWord(x)]

NormalizeWordOf(x) ==
    IF x \in MemoWords THEN NormalizeWordMemo[x] ELSE NormalizeWord(x)

(***************************************************************************)
(* Matching (handleSpeechResult, second half)                               *)
(***************************************************************************)
\* prompterWords.slice(cursor, cursor + 5).map(normalise)
NextPrompterWords(words, cursor) ==
    LET window == Slice(words, cursor, cursor + LookAheadWordCount)
    IN  [i \in 1..Len(window) |-> NormalizeWordOf(window[i])]

\* RecentlyUsed without the test of the cache.
RecentlyUsedNever(cache, word) == FALSE

\* "Ignore recently used words": the test that makes the loop skip a word.
RecentlyUsed(cache, word) == Includes(cache, word)

\* Advance counting one word too many.
AdvanceTooFar(foundIndex) == foundIndex + 2

\* Advance without the + 1.
AdvanceByIndex(foundIndex) == foundIndex

\* The amount added to the cursor for a match at foundIndex.
Advance(foundIndex) == foundIndex + 1

NoMatch == [found |-> FALSE, word |-> <<>>, foundIndex |-> -1]

\* FindMatch with the loop running from the oldest spoken word to the newest.
RECURSIVE FindMatchUpFrom(_, _, _, _)
FindMatchUpFrom(spokenWords, i, nextPrompterWords, cache) ==
    IF i >= Len(spokenWords) THEN NoMatch
    ELSE LET currentSpokenWord == spokenWords[i + 1]
             foundIndex == FindIndex(nextPrompterWords, currentSpokenWord)
         IN  IF RecentlyUsed(cache, currentSpokenWord) \/ foundIndex = -1
             THEN FindMatchUpFrom(spokenWords, i + 1, nextPrompterWords, cache)
             ELSE [found |-> TRUE, word |-> currentSpokenWord,
                   foundIndex |-> foundIndex]

FindMatchOldestFirst(spokenWords, i, nextPrompterWords, cache) ==
    FindMatchUpFrom(spokenWords, 0, nextPrompterWords, cache)

\* The for loop over spokenWords from index i (0-based) down to 0: the first
\* word met that is not recently used and occurs in the window is the match.
RECURSIVE FindMatch(_, _, _, _)
FindMatch(spokenWords, i, nextPrompterWords, cache) ==
    IF i < 0 THEN NoMatch
    ELSE LET currentSpokenWord == spokenWords[i + 1]
             foundIndex == FindIndex(nextPrompterWords, currentSpokenWord)
         IN  IF RecentlyUsed(cache, currentSpokenWord)
             THEN FindMatch(spokenWords, i - 1, nextPrompterWords, cache)
             ELSE IF foundIndex > -1
                  THEN [found |-> TRUE, word |-> currentSpokenWord,
                        foundIndex |-> foundIndex]
                  ELSE FindMatch(spokenWords, i - 1, nextPrompterWords, cache)

(***************************************************************************)
(* State                                                                    *)
(***************************************************************************)
VARIABLES
    prompterWords,      \* the script, split into words
    prompterIsActive,   \* the prompter board is shown (else the form)
    prompterIsPaused,
    restartOnEnd,       \* _restartOnEnd
    cursorPosition,     \* _cursorPosition
    foundWordCache,     \* _foundWordCache
    transcriptCache,    \* _transcriptCache
    expiryTimers,       \* pending 5000 ms callbacks of handleSpeechResult
    restartTimers,      \* pending 250 ms callbacks of restartPrompter
    recognition,        \* the engine behind _recognition
    lastResults,        \* e.results of the last call of handleSpeechResult
    uncaughtError       \* an exception has left a callback uncaught

vars ==
    <<prompterWords, prompterIsActive, prompterIsPaused, restartOnEnd,
      cursorPosition, foundWordCache, transcriptCache, expiryTimers,
      restartTimers, recognition, lastResults, uncaughtError>>

\* The value of a field no constructor assigns (_transcriptCache): no
\* transcript, which is a string of characters, equals it.
Undefined == <<"undefined">>

\* The constructor.  prompterWords is assigned by the first startClick and is
\* not read before it (only the form is shown until then).
Init ==
    /\ prompterWords = <<>>
    /\ prompterIsActive = FALSE
    /\ prompterIsPaused = FALSE
    /\ restartOnEnd = FALSE
    /\ cursorPosition = 0
    /\ foundWordCache = <<>>
    /\ transcriptCache = Undefined
    /\ expiryTimers = 0
    /\ restartTimers = 0
    /\ recognition = "idle"
    /\ lastResults = <<>>
    /\ uncaughtError = FALSE

(***************************************************************************)
(* The recognition engine (webkitSpeechRecognition)                         *)
(*                                                                          *)
(* "idle": not started.  "started": listening.  "ending": stop() or abort() *)
(* was called and the end event has not been dispatched yet; result events  *)
(* the engine had already produced are still dispatched in this state.      *)
(***************************************************************************)
\* start() throws (InvalidStateError) when the engine is already started.
StartThrows == recognition # "idle"

AfterStart == IF StartThrows THEN recognition ELSE "started"

\* stop() and abort(): the engine ends; a no-op when it is not started.
AfterStop == IF recognition = "started" THEN "ending" ELSE recognition

AfterAbort == IF recognition = "started" THEN "ending" ELSE recognition

\* The engine dispatches result events while it has not ended.
Delivering == recognition \in {"started", "ending"}

(***************************************************************************)
(* Operations                                                               *)
(***************************************************************************)
\* startClick: saveScript, assignWords, startPrompter.
StartClick(text) ==
    /\ prompterWords' = AssignWords(text)
    /\ restartOnEnd' = TRUE
    /\ recognition' = AfterStart
    /\ prompterIsActive' = (IF StartThrows THEN prompterIsActive ELSE TRUE)
    /\ UNCHANGED <<prompterIsPaused, cursorPosition, foundWordCache,
                   transcriptCache, expiryTimers, restartTimers, lastResults,
                   uncaughtError>>

\* wordClick on the word at index: the cursor is set, then restartPrompter
\* aborts the engine and schedules the delayed start.
WordClick(index) ==
    /\ index \in 0..(Len(prompterWords) - 1)
    /\ restartTimers < MaxRestartTimers
    /\ cursorPosition' = index
    /\ restartOnEnd' = FALSE
    /\ recognition' = AfterAbort
    /\ restartTimers' = restartTimers + 1
    /\ UNCHANGED <<prompterWords, prompterIsActive, prompterIsPaused,
                   foundWordCache, transcriptCache, expiryTimers, lastResults,
                   uncaughtError>>

\* The callback restartPrompter schedules: start() first, so that when it
\* throws the two assignments after it are not made.  The callback runs after
\* restartPrompter has returned: its try/catch does not cover it, and the
\* exception leaves the callback uncaught.
DelayedStart ==
    /\ restartTimers > 0
    /\ restartTimers' = restartTimers - 1
    /\ recognition' = AfterStart
    /\ uncaughtError' = (uncaughtError \/ StartThrows)
    /\ restartOnEnd' = (IF StartThrows THEN restartOnEnd ELSE TRUE)
    /\ prompterIsActive' = (IF StartThrows THEN prompterIsActive ELSE TRUE)
    /\ UNCHANGED <<prompterWords, prompterIsPaused, cursorPosition,
                   foundWordCache, transcriptCache, expiryTimers, lastResults>>

\* togglePlayPauseClick: pausePrompter when now paused, else startPrompter.
TogglePlayPauseClick ==
    /\ prompterIsPaused' = ~prompterIsPaused
    /\ IF ~prompterIsPaused
       THEN /\ restartOnEnd' = FALSE
            /\ recognition' = AfterStop
            /\ UNCHANGED prompterIsActive
       ELSE /\ restartOnEnd' = TRUE
            /\ recognition' = AfterStart
            /\ prompterIsActive' = (IF StartThrows THEN prompterIsActive ELSE TRUE)
    /\ UNCHANGED <<prompterWords, cursorPosition, foundWordCache,
                   transcriptCache, expiryTimers, restartTimers, lastResults,
                   uncaughtError>>

\* doneClick: stopPrompter, then the cursor is set to 0.
DoneClick ==
    /\ restartOnEnd' = FALSE
    /\ recognition' = AfterAbort
    /\ prompterIsActive' = FALSE
    /\ cursorPosition' = 0
    /\ UNCHANGED <<prompterWords, prompterIsPaused, foundWordCache,
                   transcriptCache, expiryTimers, restartTimers, lastResults,
                   uncaughtError>>

\* onend without the test of _restartOnEnd: the engine is always started
\* again.
RecognitionEndAlwaysRestarts ==
    /\ recognition \in {"started", "ending"}
    /\ recognition' = "started"
    /\ UNCHANGED <<prompterWords, prompterIsActive, prompterIsPaused,
                   restartOnEnd, cursorPosition, foundWordCache,
                   transcriptCache, expiryTimers, restartTimers, lastResults,
                   uncaughtError>>

\* The engine ends (after stop() or abort(), or by itself) and dispatches
\* the end event: onend starts it again when _restartOnEnd is set.
RecognitionEnd ==
    /\ recognition \in {"started", "ending"}
    /\ recognition' = (IF restartOnEnd THEN "started" ELSE "idle")
    /\ UNCHANGED <<prompterWords, prompterIsActive, prompterIsPaused,
                   restartOnEnd, cursorPosition, foundWordCache,
                   transcriptCache, expiryTimers, restartTimers, lastResults,
                   uncaughtError>>

\* The expiry callback with pop() in the place of shift(): the newest entry
\* is removed.
ExpireNewestFoundWord ==
    /\ expiryTimers > 0
    /\ expiryTimers' = expiryTimers - 1
    /\ foundWordCache' = (IF foundWordCache = <<>> THEN <<>>
                          ELSE SubSeq(foundWordCache, 1, Len(foundWordCache) - 1))
    /\ UNCHANGED <<prompterWords, prompterIsActive, prompterIsPaused,
                   restartOnEnd, cursorPosition, transcriptCache,
                   restartTimers, recognition, lastResults, uncaughtError>>

\* The expiry callback with the shift() left out: it removes nothing.
ExpireNoFoundWord ==
    /\ expiryTimers > 0
    /\ expiryTimers' = expiryTimers - 1
    /\ UNCHANGED <<prompterWords, prompterIsActive, prompterIsPaused,
                   restartOnEnd, cursorPosition, foundWordCache,
                   transcriptCache, restartTimers, recognition, lastResults,
                   uncaughtError>>

\* The callback handleSpeechResult schedules for each match:
\* _foundWordCache.shift().
ExpireFoundWord ==
    /\ expiryTimers > 0
    /\ expiryTimers' = expiryTimers - 1
    /\ foundWordCache' = (IF foundWordCache = <<>> THEN <<>> ELSE Tail(foundWordCache))
    /\ UNCHANGED <<prompterWords, prompterIsActive, prompterIsPaused,
                   restartOnEnd, cursorPosition, transcriptCache,
                   restartTimers, recognition, lastResults, uncaughtError>>

\* Ignored without the comparison with the cached transcript.
IgnoredWhenEmpty(transcript, cached) == transcript = <<>>

\* The test that makes handleSpeechResult return before it matches.
Ignored(transcript, cached) == transcript = <<>> \/ transcript = cached

\* handleSpeechResult(e), e.results = results.
HandleSpeechResult(results) ==
    /\ LET transcript == AggregateOf(results)
       IN  IF Ignored(transcript, transcriptCache)
           THEN UNCHANGED <<transcriptCache, foundWordCache, expiryTimers,
                            cursorPosition>>
           ELSE LET spokenWords == SpokenWordsOf(transcript)
                    nextPrompterWords ==
                        NextPrompterWords(prompterWords, cursorPosition)
                    match == FindMatch(spokenWords, Len(spokenWords) - 1,
                                       nextPrompterWords, foundWordCache)
                IN  /\ transcriptCache' = transcript
                    /\ IF match.found
                       THEN /\ foundWordCache' = Append(foundWordCache, match.word)
                            /\ expiryTimers' = expiryTimers + 1
                            /\ cursorPosition' =
                                   cursorPosition + Advance(match.foundIndex)
                       ELSE UNCHANGED <<foundWordCache, expiryTimers,
                                        cursorPosition>>
    /\ UNCHANGED <<prompterWords, prompterIsActive, prompterIsPaused,
                   restartOnEnd, restartTimers, recognition, uncaughtError>>

\* The engine dispatches a result event: onresult calls handleSpeechResult.
RecognitionResult(results) ==
    /\ Delivering
    /\ expiryTimers < MaxExpiryTimers
    /\ lastResults' = results
    /\ HandleSpeechResult(results)

\* What the page shows: the form with the start button while the prompter is
\* not active, the board with the words and the pause and done buttons while
\* it is.
FormShown == ~prompterIsActive

BoardShown == prompterIsActive

Next ==
    \/ FormShown /\ \E text \in ScriptTexts : StartClick(text)
    \/ BoardShown /\ \E index \in 0..(Len(prompterWords) - 1) : WordClick(index)
    \/ DelayedStart
    \/ BoardShown /\ TogglePlayPauseClick
    \/ BoardShown /\ DoneClick
    \/ RecognitionEnd
    \/ ExpireFoundWord
    \/ \E results \in Events : RecognitionResult(results)

Spec == Init /\ [][Next]_vars

(***************************************************************************)
(* The first result event of a session, over the events of SegmentEvents.   *)
(***************************************************************************)
FirstResult(results) == lastResults = <<>> /\ RecognitionResult(results)

AggregationNext ==
    \/ FormShown /\ \E text \in ScriptTexts : StartClick(text)
    \/ \E results \in SegmentEvents : FirstResult(results)

AggregationSpec == Init /\ [][AggregationNext]_vars

(***************************************************************************)
(* A script of one word, read aloud once, over the words of SingleWords.    *)
(***************************************************************************)
\* The words of the script as the speaker says them, a space between two.
RECURSIVE ScriptAsSpoken(_)
ScriptAsSpoken(words) ==
    IF Len(words) <= 1 THEN (IF words = <<>> THEN <<>> ELSE words[1])
    ELSE words[1] \o <<" ">> \o ScriptAsSpoken(Tail(words))

ReadScript ==
    FirstResult(<<Result(90, ScriptAsSpoken(prompterWords))>>)

NormalizationNext ==
    \/ FormShown /\ \E text \in SingleWords : StartClick(text)
    \/ ReadScript

NormalizationSpec == Init /\ [][NormalizationNext]_vars

(***************************************************************************)
(* Properties                                                               *)
(***************************************************************************)
\* A step that is a call of handleSpeechResult: its argument is the value
\* lastResults has after the step.
ResultStep == RecognitionResult(lastResults')

CursorInRange == 0 <= cursorPosition /\ cursorPosition <= Len(prompterWords)

\* The operations C1 names.
SessionStep ==
    \/ ResultStep
    \/ \E index \in 0..(Len(prompterWords) - 1) : WordClick(index)
    \/ DoneClick
    \/ ExpireFoundWord

ResultNeverMovesCursorBack ==
    [][ResultStep =>
          \/ cursorPosition' = cursorPosition /\ foundWordCache' = foundWordCache
          \/ cursorPosition' >= cursorPosition + 1]_vars

\* C2 witness: a match on the first word of the window (foundIndex 0) has
\* moved the cursor from 0 to 1.
AdvancedByOne ==
    /\ prompterWords = AssignWords(TheFoxTheDog)
    /\ cursorPosition = 1
    /\ foundWordCache = <<SliceTo(TheQuick, 3)>>
    /\ transcriptCache = TheQuickBrown
    /\ restartTimers = 0

\* C3: the word a call of handleSpeechResult matches (the entry it appends
\* to the cache) was not in the cache when the call began.
CachedWordNotMatched ==
    [][(ResultStep /\ foundWordCache' # foundWordCache) =>
          ~Includes(foundWordCache, foundWordCache'[Len(foundWordCache')])]_vars

\* C3 witness: "quick brown" was heard while "brown" was cached and in the
\* window (the cursor had been clicked back): "brown", the most recent word,
\* was passed over and "quick" matched.
CachedWordPassedOver ==
    /\ prompterWords = AssignWords(TheQuickBrownFoxJumps)
    /\ transcriptCache = QuickBrown
    /\ foundWordCache = <<Brown, SliceTo(QuickBrown, PrefixLength)>>
    /\ cursorPosition = 2

\* The advance C4 describes: among the spoken words that are not cached and
\* occur in the window, the most recent one (the largest index) decides, and
\* the advance is the 1-based position of its first occurrence in the
\* window; 0 when there is no such word.
ExpectedAdvance(transcript, words, cursor, cache) ==
    LET spoken == SpokenWordsOf(transcript)
        window == NextPrompterWords(words, cursor)
        occurs(w) == {j \in 1..Len(window) : window[j] = w}
        candidates == {i \in 1..Len(spoken) :
                          /\ \A k \in 1..Len(cache) : cache[k] # spoken[i]
                          /\ occurs(spoken[i]) # {}}
    IN  IF candidates = {} THEN 0
        ELSE LET last == CHOOSE i \in candidates : \A k \in candidates : k <= i
                 first == CHOOSE j \in occurs(spoken[last]) :
                              \A k \in occurs(spoken[last]) : j <= k
             IN  first

\* C4: a call of handleSpeechResult whose transcript is accepted moves the
\* cursor by exactly ExpectedAdvance.
MatchAdvancesAsSpecified ==
    [][(/\ ResultStep
        /\ AggregateOf(lastResults') # <<>>
        /\ AggregateOf(lastResults') # transcriptCache) =>
          cursorPosition' =
              cursorPosition + ExpectedAdvance(AggregateOf(lastResults'),
                                               prompterWords, cursorPosition,
                                               foundWordCache)]_vars

\* C4 witness: the scenario of the claim, script "the quick brown fox jumps",
\* transcript "the quick brown": "brown" matched, the cursor at 3.
BrownMatchedCursorAtThree ==
    /\ prompterWords = AssignWords(TheQuickBrownFoxJumps)
    /\ lastResults = <<Result(90, TheQuickBrown)>>
    /\ transcriptCache = TheQuickBrown
    /\ foundWordCache = <<Brown>>
    /\ cursorPosition = 3
    /\ restartTimers = 0

\* The results of an event that precede its first result below the
\* threshold (all of them when none is below it).
RECURSIVE HighConfidencePrefix(_)
HighConfidencePrefix(results) ==
    IF results = <<>> \/ Head(results).confidence < ConfidenceThreshold
    THEN <<>>
    ELSE <<Head(results)>> \o HighConfidencePrefix(Tail(results))

\* C5: a call of handleSpeechResult changes the transcript cache, the cursor,
\* the found-word cache and the expiry timers exactly as a call with only the
\* results before the first one below the threshold would: that result and
\* the later ones contribute nothing.
AggregationStopsAtLowConfidence ==
    [][ResultStep => HandleSpeechResult(HighConfidencePrefix(lastResults'))]_vars

\* C5 witness: the event [(0.90, "the quick"), (0.80, "brown"),
\* (0.99, "fox jumps")] was handled and the transcript is "the quick".
StoppedBeforeBrown ==
    /\ lastResults = LowConfidenceInside
    /\ transcriptCache = TheQuick
    /\ prompterWords = AssignWords(TheQuickBrownFoxJumps)
    /\ cursorPosition = 2

AllAboveThreshold(results) ==
    \A i \in 1..Len(results) :
        /\ results[i].confidence >= ConfidenceThreshold
        /\ results[i].transcript # <<>>

\* C6: after handleSpeechResult was called with an event whose results are
\* all at or above the threshold, with non-empty text, the transcript it
\* aggregated is non-empty and at most maxTranscriptLength long.
TranscriptWithinMaxLength ==
    (lastResults # <<>> /\ AllAboveThreshold(lastResults)) =>
        /\ transcriptCache # Undefined
        /\ transcriptCache # <<>>
        /\ Len(transcriptCache) <= MaxTranscriptLength

\* C7: a call of handleSpeechResult whose aggregated transcript is empty or
\* equal to the cached one changes neither the cursor, nor the found-word
\* cache, nor the pending expiry timers, nor the transcript cache.
IgnoredEventChangesNothing ==
    [][(/\ ResultStep
        /\ \/ AggregateOf(lastResults') = <<>>
           \/ AggregateOf(lastResults') = transcriptCache) =>
          UNCHANGED <<cursorPosition, foundWordCache, expiryTimers,
                      transcriptCache>>]_vars

\* C7 witness: the first event delivered had only a result below the
\* threshold, so its transcript was empty: nothing was cached or matched.
EmptyTranscriptIgnored ==
    /\ lastResults = <<Result(80, Fox)>>
    /\ transcriptCache = Undefined
    /\ recognition = "started"
    /\ cursorPosition = 0
    /\ foundWordCache = <<>>

\* C8: every word in the found-word cache (a normalised spoken word equal to
\* a normalised script word) has at most 5 characters, all of them a-z.
NormalizedWordsAreLetters ==
    \A i \in 1..Len(foundWordCache) :
        /\ Len(foundWordCache[i]) <= PrefixLength
        /\ \A k \in 1..Len(foundWordCache[i]) : foundWordCache[i][k] \in LowerSet

\* C9: every word in the found-word cache, the normalisation of a script
\* word, is left as it is by a second normalisation.
NormalizeIsIdempotent ==
    \A i \in 1..Len(foundWordCache) :
        NormalizeWord(foundWordCache[i]) = foundWordCache[i]

\* C9 witness: the script word "B7a|aa" was read and matched: its
\* normalisation "ba|aa" (lowercased, the digit removed) is in the cache.
NormalizedWordCached ==
    /\ prompterWords = << <<"B","7","a","|","a","a">> >>
    /\ foundWordCache = << <<"b","a","|","a","a">> >>

\* The session is stopped (after doneClick) or being restarted (after
\* wordClick, before the delayed start), and no start has armed it again.
Disarmed == ~restartOnEnd /\ (~prompterIsActive \/ restartTimers > 0)

\* C10: a result event delivered while the session is stopped or being
\* restarted changes neither the cursor, nor the found-word cache, nor the
\* transcript cache.
NoResultAcceptedWhileDisarmed ==
    [][(Disarmed /\ ResultStep) =>
          UNCHANGED <<cursorPosition, foundWordCache, transcriptCache>>]_vars

\* A step in which an operation calls start() and start() throws.
FailedStart ==
    /\ StartThrows
    /\ \/ \E text \in ScriptTexts : StartClick(text)
       \/ prompterIsPaused /\ TogglePlayPauseClick
       \/ DelayedStart

\* C11: when start() throws in an operation that calls it, the exception is
\* caught (no exception leaves the operation uncaught) and the cursor, the
\* found-word cache and the transcript cache are unchanged.
EngineFailureIsCaught ==
    [][FailedStart =>
          /\ uncaughtError' = uncaughtError
          /\ UNCHANGED <<cursorPosition, foundWordCache, transcriptCache>>]_vars

\* A step that is a wordClick, and so a call of restartPrompter.
RestartStep == \E index \in 0..(Len(prompterWords) - 1) : WordClick(index)

\* C12: a restart leaves the found-word cache empty and the transcript cache
\* without a transcript, and no other step takes the transcript away or
\* removes more than the oldest entry of the found-word cache.
CachesResetOnlyOnRestart ==
    /\ [][RestartStep =>
             /\ foundWordCache' = <<>>
             /\ transcriptCache' \in {Undefined, <<>>}]_vars
    /\ [][~RestartStep =>
             /\ \/ Len(foundWordCache') >= Len(foundWordCache)
                \/ foundWordCache' = Tail(foundWordCache)
             /\ \/ transcriptCache' = transcriptCache
                \/ transcriptCache' \notin {Undefined, <<>>}]_vars

\* C13: in every state the found-word cache has as many entries as there are
\* pending expiry callbacks; a call of handleSpeechResult schedules as many
\* callbacks as it inserts entries; and an expiry callback (the only step
\* that takes a pending callback away) finds the cache non-empty and removes
\* exactly its oldest entry.
ExpiryMatchesInsertion ==
    /\ [](Len(foundWordCache) = expiryTimers)
    /\ [][ResultStep =>
             Len(foundWordCache') - Len(foundWordCache) =
                 expiryTimers' - expiryTimers]_vars
    /\ [][expiryTimers' = expiryTimers - 1 =>
             /\ foundWordCache # <<>>
             /\ foundWordCache' = Tail(foundWordCache)]_vars

\* C13 witness: "brown" and then "fox" were matched and none has expired:
\* two entries, two pending callbacks.
TwoEntriesTwoTimers ==
    /\ prompterWords = AssignWords(TheQuickBrownFoxJumps)
    /\ foundWordCache = <<Brown, Fox>>
    /\ expiryTimers = 2
    /\ cursorPosition = 4

(***************************************************************************)
(* The timers fire and the engine ends: a pending expiry callback is run    *)
(* after its 5000 ms, and after stop() or abort() the engine dispatches its *)
(* end event.                                                               *)
(***************************************************************************)
\* One script, and the events that match its words.
FairEvents ==
    { <<Result(90, TheQuickBrown)>>,
      <<Result(90, QuickBrown)>>,
      <<Result(90, FoxJumpsJumps)>> }

FairNext ==
    \/ FormShown /\ StartClick(TheQuickBrownFoxJumps)
    \/ BoardShown /\ \E index \in 0..(Len(prompterWords) - 1) : WordClick(index)
    \/ DelayedStart
    \/ BoardShown /\ TogglePlayPauseClick
    \/ BoardShown /\ DoneClick
    \/ RecognitionEnd
    \/ ExpireFoundWord
    \/ \E results \in FairEvents : RecognitionResult(results)

FairSpec ==
    /\ Init
    /\ [][FairNext]_vars
    /\ WF_vars(ExpireFoundWord)
    /\ WF_vars(RecognitionEnd)

\* The normalised words of the scripts: the words a match can cache.
CacheableWords ==
    UNION {{NormalizeWord(AssignWords(text)[i]) :
               i \in 1..Len(AssignWords(text))} : text \in ScriptTexts}

\* A step in which handleSpeechResult matches a word.
MatchStep == ResultStep /\ Len(foundWordCache') > Len(foundWordCache)

\* C14: when the expiry callbacks are run, every word in the found-word
\* cache is eventually not in it, and when from some point on no word is
\* matched the cache is eventually empty for good.
CachedWordEventuallyExpires ==
    /\ \A word \in CacheableWords :
           Includes(foundWordCache, word) ~> ~Includes(foundWordCache, word)
    /\ <>[][~MatchStep]_vars => <>[](foundWordCache = <<>>)

\* C14 witness: the cursor is at the end of the script, where only the match
\* of "jumps" takes it, and "jumps" has expired from the cache.
JumpsMatchedAndExpired ==
    /\ prompterWords = AssignWords(TheQuickBrownFoxJumps)
    /\ cursorPosition = Len(prompterWords)
    /\ transcriptCache = FoxJumpsJumps
    /\ foundWordCache = <<>>

\* C15: a call of handleSpeechResult inserts at most one word, at the end
\* of the found-word cache, schedules at most one expiry callback, and moves
\* the cursor forward by at most the look-ahead count.
AtMostOneMatchPerEvent ==
    [][ResultStep =>
          /\ \/ foundWordCache' = foundWordCache
             \/ /\ Len(foundWordCache') = Len(foundWordCache) + 1
                /\ SubSeq(foundWordCache', 1, Len(foundWordCache)) = foundWordCache
          /\ expiryTimers' - expiryTimers \in {0, 1}
          /\ cursorPosition' - cursorPosition \in 0..LookAheadWordCount]_vars

\* C15 witness: "fox jumps jumps" was heard at cursor 0: "jumps", said
\* twice, was matched once, and the cursor moved by the whole window.
JumpsSaidTwiceMatchedOnce ==
    /\ lastResults = <<Result(90, FoxJumpsJumps)>>
    /\ prompterWords = AssignWords(TheQuickBrownFoxJumps)
    /\ cursorPosition = LookAheadWordCount
    /\ foundWordCache = <<SliceTo(Substr(FoxJumps, 4), PrefixLength)>>
    /\ expiryTimers = 1

\* A step in which the engine ends and nothing but the engine changes: the
\* end event, handled by onend.
EngineEndStep ==
    /\ recognition \in {"started", "ending"}
    /\ recognition' \in {"started", "idle"}
    /\ recognition' # recognition
    /\ UNCHANGED <<prompterWords, prompterIsActive, prompterIsPaused,
                   restartOnEnd, cursorPosition, foundWordCache,
                   transcriptCache, expiryTimers, restartTimers, lastResults,
                   uncaughtError>>

\* C16: while _restartOnEnd is set the engine is never left ended; when the
\* engine ends, it is started again if _restartOnEnd is set and left ended
\* if it is not; and an engine that is ending while _restartOnEnd is set is
\* eventually started (unless a pause, restart or stop clears the flag).
EngineRestartedWhenArmed ==
    /\ [](restartOnEnd => recognition # "idle")
    /\ [][EngineEndStep =>
             recognition' = (IF restartOnEnd THEN "started" ELSE "idle")]_vars
    /\ (restartOnEnd /\ recognition = "ending") ~>
           (recognition = "started" \/ ~restartOnEnd)

\* C16 witness: startClick found the engine still ending (start() threw, the
\* form stayed), and onend has started the engine since.
RestartedByOnEnd ==
    /\ recognition = "started"
    /\ restartOnEnd
    /\ ~prompterIsActive

\* Neither active nor armed: the state doneClick leaves.
Stopped == ~prompterIsActive /\ ~restartOnEnd

\* C17: a stopped prompter stays stopped (prompterIsActive and _restartOnEnd
\* stay false) in every step but a startClick.
StoppedUntilStartClick ==
    [][Stopped =>
          \/ Stopped'
          \/ \E text \in ScriptTexts : StartClick(text)]_vars

\* C18: in every state in which prompterIsPaused is true, _restartOnEnd is
\* false.
PausedIsNotArmed == prompterIsPaused => ~restartOnEnd

\* C19: the entries of the found-word cache are pairwise distinct.
NoDuplicateInCache ==
    \A i, j \in 1..Len(foundWordCache) :
        i # j => foundWordCache[i] # foundWordCache[j]

\* C19 witness: with "the" cached, "fox the quick" was heard while "the" was
\* in the window again: "the" was passed over and "fox" was cached.
TheNotCachedTwice ==
    /\ prompterWords = AssignWords(TheFoxTheDog)
    /\ transcriptCache = Fox \o <<" ">> \o TheQuick
    /\ foundWordCache = <<SliceTo(TheQuick, 3), Fox>>
    /\ cursorPosition = 2

\* C20: no entry of the found-word cache, a spoken token that was matched,
\* is the empty string.
EmptyTokenNeverMatched ==
    \A i \in 1..Len(foundWordCache) : foundWordCache[i] # <<>>

=============================================================================
